---- MODULE Spec2Model ----
(***************************************************************************)
(* Listing query service of the Gateway El Salvador web application: the   *)
(* Next.js route handlers that serve public/data/properties.json           *)
(* (GET /api/properties, /api/properties/:id, /departments, /stats,        *)
(* /featured), each with its own module-level lazily populated cache.      *)
(*                                                                         *)
(* Strings are sequences of one-character strings.  JavaScript values of   *)
(* type number | null are records [t, v] so that NaN, Infinity and null    *)
(* keep the behaviour they have in the handlers.                           *)
(***************************************************************************)
EXTENDS Integers, Sequences, FiniteSets, TLC

\* ------------------------------------------------------------------------
\* Bounds of the model
\* ------------------------------------------------------------------------
MaxListings == 3      \* longest collection stored in properties.json
MaxReads == 3         \* cap on the number of reads of the source counted
MaxSupplied == 3      \* most filters supplied at once where passes are permuted
NReq == 2             \* GET /api/properties/:id requests that may be in flight

\* ------------------------------------------------------------------------
\* JavaScript numbers, null, and the operators the handlers use on them
\* ------------------------------------------------------------------------
Num(n) == [t |-> "num", v |-> n]
NaN == [t |-> "nan", v |-> 0]
Infinity == [t |-> "inf", v |-> 1]
NegInfinity == [t |-> "inf", v |-> -1]
null == [t |-> "null", v |-> 0]

\* a ?? d
Nullish(a, d) == IF a.t = "null" THEN d ELSE a

\* a <= b on numbers (false as soon as one side is NaN)
JsLeq(a, b) ==
  /\ a.t # "nan"
  /\ b.t # "nan"
  /\ CASE a.t = "num" /\ b.t = "num" -> a.v <= b.v
       [] a.t = "inf" /\ b.t = "inf" -> a.v <= b.v
       [] a.t = "inf" /\ b.t = "num" -> a.v < 0
       [] a.t = "num" /\ b.t = "inf" -> b.v > 0
       [] OTHER -> FALSE

\* a >= b
JsGeq(a, b) == JsLeq(b, a)

\* a - b, for the finite numbers the comparators and the pager subtract
JsSub(a, b) ==
  IF a.t = "num" /\ b.t = "num" THEN Num(a.v - b.v) ELSE NaN

\* a * b and a + b on results of parseInt (a finite integer or NaN)
JsMul(a, b) ==
  IF a.t = "num" /\ b.t = "num" THEN Num(a.v * b.v) ELSE NaN

JsAdd(a, b) ==
  IF a.t = "num" /\ b.t = "num" THEN Num(a.v + b.v) ELSE NaN

\* ------------------------------------------------------------------------
\* Strings
\* ------------------------------------------------------------------------
UPPER == <<"A", "B", "C", "D", "E", "F", "G", "H", "I", "J", "K", "L", "M",
           "N", "O", "P", "Q", "R", "S", "T", "U", "V", "W", "X", "Y", "Z">>
LOWER == <<"a", "b", "c", "d", "e", "f", "g", "h", "i", "j", "k", "l", "m",
           "n", "o", "p", "q", "r", "s", "t", "u", "v", "w", "x", "y", "z">>
DIGITS == <<"0", "1", "2", "3", "4", "5", "6", "7", "8", "9">>
INFINITY == <<"I", "n", "f", "i", "n", "i", "t", "y">>

toLowerChar(c) ==
  IF \E i \in DOMAIN UPPER : UPPER[i] = c
  THEN LOWER[CHOOSE i \in DOMAIN UPPER : UPPER[i] = c]
  ELSE c

\* toLowerCase that leaves the string as it is
toLowerCaseNoop(s) == s

\* String.prototype.toLowerCase
toLowerCase(s) == [i \in DOMAIN s |-> toLowerChar(s[i])]

\* String.prototype.includes
includes(s, sub) ==
  \E i \in 0..(Len(s) - Len(sub)) : SubSeq(s, i + 1, i + Len(sub)) = sub

startsWith(s, pre) ==
  Len(pre) <= Len(s) /\ SubSeq(s, 1, Len(pre)) = pre

isDigit(c) == \E i \in DOMAIN DIGITS : DIGITS[i] = c

digitVal(c) == (CHOOSE i \in DOMAIN DIGITS : DIGITS[i] = c) - 1

\* length of the longest prefix of s made of decimal digits
RECURSIVE digitPrefix(_)
digitPrefix(s) ==
  IF s = <<>> \/ ~isDigit(Head(s)) THEN 0 ELSE 1 + digitPrefix(Tail(s))

\* value of a string of decimal digits
RECURSIVE digitsValue(_)
digitsValue(s) ==
  IF s = <<>> THEN 0
  ELSE 10 * digitsValue(SubSeq(s, 1, Len(s) - 1)) + digitVal(s[Len(s)])

\* parseInt(s, 10): optional sign, then the longest run of digits; NaN when
\* there is none.
parseInt(s) ==
  LET neg == s # <<>> /\ Head(s) = "-"
      body == IF neg THEN Tail(s) ELSE s
      n == digitPrefix(body)
  IN  IF n = 0 THEN NaN
      ELSE Num((IF neg THEN -1 ELSE 1) * digitsValue(SubSeq(body, 1, n)))

\* parseFloat(s): as parseInt, and it also reads "Infinity".  (The strings
\* of the model have no decimal point or exponent.)
parseFloat(s) ==
  LET neg == s # <<>> /\ Head(s) = "-"
      body == IF neg THEN Tail(s) ELSE s
      n == digitPrefix(body)
  IN  IF startsWith(body, INFINITY)
      THEN (IF neg THEN NegInfinity ELSE Infinity)
      ELSE IF n = 0 THEN NaN
      ELSE Num((IF neg THEN -1 ELSE 1) * digitsValue(SubSeq(body, 1, n)))

\* ------------------------------------------------------------------------
\* Arrays
\* ------------------------------------------------------------------------
\* the set of the elements of an array
Elems(seq) == {seq[i] : i \in DOMAIN seq}

\* Array.prototype.filter is SelectSeq: the elements that pass the test, in
\* their order, in a new array.

\* ToIntegerOrInfinity followed by the clamping of Array.prototype.slice
relIndex(k, len) ==
  CASE k.t = "nan" -> 0
    [] k.t = "inf" -> IF k.v < 0 THEN 0 ELSE len
    [] k.v < 0 -> IF len + k.v < 0 THEN 0 ELSE len + k.v
    [] OTHER -> IF k.v > len THEN len ELSE k.v

\* slice that takes the element at `end` too
sliceInclusive(arr, start, end) ==
  LET from == relIndex(start, Len(arr))
      to == relIndex(JsAdd(end, Num(1)), Len(arr))
  IN  IF from >= to THEN <<>> ELSE SubSeq(arr, from + 1, to)

\* Array.prototype.slice(start, end)
slice(arr, start, end) ==
  LET from == relIndex(start, Len(arr))
      to == relIndex(end, Len(arr))
  IN  IF from >= to THEN <<>> ELSE SubSeq(arr, from + 1, to)

\* Array.prototype.sort(cmp): the sort is stable, so for a comparator that
\* orders by a numeric key the result is the one of an insertion sort that
\* moves an element left only past elements that compare greater.  The
\* comparator is passed as a function cmp[a, b] over the elements of arr.
RECURSIVE insertSorted(_, _, _)
insertSorted(x, sorted, cmp) ==
  IF sorted = <<>> THEN <<x>>
  ELSE LET last == sorted[Len(sorted)]
       IN  IF cmp[last, x] > 0
           THEN Append(insertSorted(x, SubSeq(sorted, 1, Len(sorted) - 1), cmp),
                       last)
           ELSE Append(sorted, x)

RECURSIVE sort(_, _)
sort(arr, cmp) ==
  IF arr = <<>> THEN <<>>
  ELSE insertSorted(arr[Len(arr)], sort(SubSeq(arr, 1, Len(arr) - 1), cmp), cmp)

\* ------------------------------------------------------------------------
\* Listings (interface Property) and the collections properties.json holds
\* ------------------------------------------------------------------------
\* thumbnail_url is only ever tested for truthiness, so null and the empty
\* string are both the empty string.
Listing(id, title, department, municipio, price, type, beds, thumb, imgs, feat, desc) ==
  [id |-> id, title |-> title, department |-> department,
   municipio |-> municipio, price_usd |-> price, property_type |-> type,
   bedrooms |-> beds, thumbnail_url |-> thumb, images |-> imgs,
   is_featured |-> feat, description |-> desc]

SantaAna == <<"S", "a", "n", "t", "a", " ", "A", "n", "a">>
LaPaz == <<"L", "a", " ", "P", "a", "z">>

\* The listings a collection is made of.  Between them they have a null
\* price, a null bedroom count, equal prices, names that differ in case
\* only, an empty department and municipio, and an empty description.
Pool ==
  { Listing("a", <<"H", "a">>, SantaAna, <<"S", "o">>, Num(1), <<"h">>,
            Num(3), "", <<>>, FALSE, <<>>),
    Listing("b", <<"b", "o">>, SantaAna, <<"A", "b">>, Num(2), <<"H">>,
            null, "tb", <<"b1">>, TRUE, <<"a", "b">>),
    Listing("c", <<"l", "a">>, LaPaz, <<"a", "S">>, null, <<"l">>,
            Num(1), "", <<"c1", "c2">>, FALSE, <<"s", "a">>),
    Listing("d", <<"S", "a">>, <<>>, <<>>, Num(1), <<"h">>,
            Num(2), "", <<>>, TRUE, <<>>) }

\* Sequences of at most n listings with pairwise different ids
RECURSIVE Collections(_)
Collections(n) ==
  IF n = 0 THEN {<<>>}
  ELSE LET shorter == Collections(n - 1)
           full == {c \in shorter : Len(c) = n - 1}
       IN  shorter \cup
           UNION { { Append(c, l) :
                     l \in {m \in Pool : \A i \in DOMAIN c : c[i].id # m.id} } :
                   c \in full }

\* A listing offered at price 0, with no property type, in the department
\* and municipio of listing a
ZeroPriced ==
  Listing("e", <<"e">>, SantaAna, <<"S", "o">>, Num(0), <<>>, null, "", <<>>,
          FALSE, <<>>)

Catalogue == Pool \cup {ZeroPriced}

\* Sequences of at most n listings of the catalogue with pairwise different
\* ids
RECURSIVE Catalogues(_)
Catalogues(n) ==
  IF n = 0 THEN {<<>>}
  ELSE LET shorter == Catalogues(n - 1)
           full == {c \in shorter : Len(c) = n - 1}
       IN  shorter \cup
           UNION { { Append(c, l) :
                     l \in {m \in Catalogue : \A i \in DOMAIN c : c[i].id # m.id} } :
                   c \in full }

\* ------------------------------------------------------------------------
\* State
\* ------------------------------------------------------------------------
VARIABLES
  fileContent,       \* the collection public/data/properties.json holds
  fileState,         \* "ok", "missing", "malformed" (invalid JSON, or JSON
                     \* null: nothing is cached and the handler throws), or
                     \* "text" (valid JSON whose top level is the string
                     \* JsonText instead of an array)
  cachedProperties,  \* route.ts: let cachedProperties
  cached,            \* let cached of the :id, departments, stats, featured routes
  reads,             \* the readFileSync calls that returned, in any module
  inflight,          \* GET /api/properties/:id requests, suspended at await params
  request,           \* the request most recently handled
  response,          \* its response, until the caller takes it
  pager,             \* observer: a caller walking the pages 1, 2, ... in order
  memo,              \* observer: an earlier request and the response it got
  client             \* the React hook under study in the browser: its state
                     \* and its calls in flight

vars == <<fileContent, fileState, cachedProperties, cached, reads, inflight,
          request, response, pager, memo, client>>

\* the variables of the server side
server == <<fileContent, fileState, cachedProperties, cached, reads, inflight,
            request, response, pager, memo>>

Routes == {"byId", "departments", "stats", "featured"}
Endpoints == {"query"} \cup Routes

NullCache == [isNull |-> TRUE, arr |-> <<>>]
Loaded(arr) == [isNull |-> FALSE, arr |-> arr]

\* JSON.parse(raw) is cast to Property[] and never inspected: a file whose
\* top level is a JSON string is cached and returned as it is.  JsonText is
\* that string; it is truthy, so the cache counts as set.
JsonText == <<"n", "o">>
LoadedText == [isNull |-> FALSE, arr |-> <<>>, text |-> JsonText]
IsText(c) == "text" \in DOMAIN c

NoRequest == [endpoint |-> "none"]
NoResponse == [endpoint |-> "none"]
NoPager == [active |-> FALSE]
NoMemo == [set |-> FALSE]
NoClient == [hook |-> "none"]

\* ------------------------------------------------------------------------
\* route.ts: loadProperties
\* ------------------------------------------------------------------------
\* The outcome of one call with the cache holding c: whether it threw, the
\* value returned, the cache afterwards, and whether readFileSync returned.
loadProperties(c) ==
  IF ~c.isNull
  THEN [threw |-> FALSE, value |-> c.arr, text |-> IsText(c), cache |-> c,
        read |-> 0]
  ELSE CASE fileState = "ok" ->
              [threw |-> FALSE, value |-> fileContent, text |-> FALSE,
               cache |-> Loaded(fileContent), read |-> 1]
         [] fileState = "text" ->
              [threw |-> FALSE, value |-> <<>>, text |-> TRUE,
               cache |-> LoadedText, read |-> 1]
         [] fileState = "missing" ->
              [threw |-> TRUE, value |-> <<>>, text |-> FALSE, cache |-> c,
               read |-> 0]
         [] OTHER ->
              [threw |-> TRUE, value |-> <<>>, text |-> FALSE, cache |-> c,
               read |-> 1]

\* ------------------------------------------------------------------------
\* route.ts: GET /api/properties
\* ------------------------------------------------------------------------
\* searchParams.get gives null for an absent parameter; GET only tests a
\* parameter for truthiness or defaults it with ||, so null and the empty
\* string behave alike and both are the empty string here.
Req(department, municipio, minPrice, maxPrice, propertyType, bedrooms, featuredOnly, sortBy, page, pageSize, search) ==
  [endpoint |-> "query", department |-> department, municipio |-> municipio,
   min_price |-> minPrice, max_price |-> maxPrice,
   property_type |-> propertyType, bedrooms |-> bedrooms,
   featured_only |-> featuredOnly, sort_by |-> sortBy, page |-> page,
   page_size |-> pageSize, q |-> search]

\* s || d
orDefault(s, d) == IF s = <<>> THEN d ELSE s

\* a score without the term for is_featured
scoreIgnoresFeatured(p) ==
  Len(p.images) * 5 + (IF p.description # <<>> THEN 20 ELSE 0)

score(p) ==
  (IF p.is_featured THEN 100 ELSE 0) + Len(p.images) * 5
    + (IF p.description # <<>> THEN 20 ELSE 0)

\* the predicates of the filter passes
departmentKeeps(p, department) ==
  toLowerCase(p.department) = toLowerCase(department)

municipioKeeps(p, municipio) ==
  includes(toLowerCase(p.municipio), toLowerCase(municipio))

minPriceKeeps(p, min) == JsGeq(Nullish(p.price_usd, Num(0)), min)

\* a max_price pass that takes a null price for 0
maxPriceKeepsNullAsZero(p, max) == JsLeq(Nullish(p.price_usd, Num(0)), max)

maxPriceKeeps(p, max) == JsLeq(Nullish(p.price_usd, Infinity), max)

propertyTypeKeeps(p, propertyType) ==
  toLowerCase(p.property_type) = toLowerCase(propertyType)

bedroomsKeeps(p, beds) == JsGeq(Nullish(p.bedrooms, Num(0)), beds)

searchKeeps(p, q) ==
  \/ includes(toLowerCase(p.title), q)
  \/ includes(toLowerCase(p.department), q)
  \/ includes(toLowerCase(p.municipio), q)
  \/ includes(toLowerCase(p.description), q)

\* the filter passes of GET, applied to the array loadProperties returned
filtered(props, req) ==
  LET f1 == IF req.department # <<>>
            THEN SelectSeq(props, LAMBDA p : departmentKeeps(p, req.department))
            ELSE props
      f2 == IF req.municipio # <<>>
            THEN SelectSeq(f1, LAMBDA p : municipioKeeps(p, req.municipio))
            ELSE f1
      f3 == IF req.min_price # <<>>
            THEN SelectSeq(f2, LAMBDA p :
                   minPriceKeeps(p, parseFloat(req.min_price)))
            ELSE f2
      f4 == IF req.max_price # <<>>
            THEN SelectSeq(f3, LAMBDA p :
                   maxPriceKeeps(p, parseFloat(req.max_price)))
            ELSE f3
      f5 == IF req.property_type # <<>>
            THEN SelectSeq(f4, LAMBDA p : propertyTypeKeeps(p, req.property_type))
            ELSE f4
      f6 == IF req.bedrooms # <<>>
            THEN SelectSeq(f5, LAMBDA p : bedroomsKeeps(p, parseInt(req.bedrooms)))
            ELSE f5
      f7 == IF req.featured_only = "true"
            THEN SelectSeq(f6, LAMBDA p : p.is_featured)
            ELSE f6
      f8 == IF req.q # <<>>
            THEN SelectSeq(f7, LAMBDA p : searchKeeps(p, toLowerCase(req.q)))
            ELSE f7
  IN  f8

\* The eight filter passes one by one, numbered in the order of the code:
\* the condition under which pass k runs, and what it does to the array.
passRuns(k, req) ==
  CASE k = 1 -> req.department # <<>>
    [] k = 2 -> req.municipio # <<>>
    [] k = 3 -> req.min_price # <<>>
    [] k = 4 -> req.max_price # <<>>
    [] k = 5 -> req.property_type # <<>>
    [] k = 6 -> req.bedrooms # <<>>
    [] k = 7 -> req.featured_only = "true"
    [] OTHER -> req.q # <<>>

passKeeps(k, p, req) ==
  CASE k = 1 -> departmentKeeps(p, req.department)
    [] k = 2 -> municipioKeeps(p, req.municipio)
    [] k = 3 -> minPriceKeeps(p, parseFloat(req.min_price))
    [] k = 4 -> maxPriceKeeps(p, parseFloat(req.max_price))
    [] k = 5 -> propertyTypeKeeps(p, req.property_type)
    [] k = 6 -> bedroomsKeeps(p, parseInt(req.bedrooms))
    [] k = 7 -> p.is_featured
    [] OTHER -> searchKeeps(p, toLowerCase(req.q))

\* a pass that keeps only the first listing that passes its test
applyPassFirstOnly(k, props, req) ==
  LET kept == SelectSeq(props, LAMBDA p : passKeeps(k, p, req))
  IN  IF ~passRuns(k, req) THEN props
      ELSE IF kept = <<>> THEN <<>> ELSE <<kept[1]>>

applyPass(k, props, req) ==
  IF passRuns(k, req)
  THEN SelectSeq(props, LAMBDA p : passKeeps(k, p, req))
  ELSE props

\* the passes applied in the order given by the sequence `order`
RECURSIVE filteredInOrder(_, _, _)
filteredInOrder(props, req, order) ==
  IF order = <<>> THEN props
  ELSE filteredInOrder(applyPass(Head(order), props, req), req, Tail(order))

\* No filter pass ran: `properties` is still the array loadProperties
\* returned, that is the cached array itself, not a copy.
aliasesCache(req) ==
  /\ req.department = <<>>
  /\ req.municipio = <<>>
  /\ req.min_price = <<>>
  /\ req.max_price = <<>>
  /\ req.property_type = <<>>
  /\ req.bedrooms = <<>>
  /\ req.featured_only # "true"
  /\ req.q = <<>>

\* a switch whose price comparators take a null price for 3, above every
\* price of the model
sortedNullAsHigh(props, req) ==
  LET sortBy == IF req.sort_by = "" THEN "newest" ELSE req.sort_by
      S == {props[i] : i \in DOMAIN props}
      price(p) == Nullish(p.price_usd, Num(3))
  IN  CASE sortBy = "price_asc" ->
             sort(props, [a \in S, b \in S |-> JsSub(price(a), price(b)).v])
        [] sortBy = "price_desc" ->
             sort(props, [a \in S, b \in S |-> JsSub(price(b), price(a)).v])
        [] sortBy = "score" ->
             sort(props, [a \in S, b \in S |-> score(b) - score(a)])
        [] OTHER -> props

\* the switch on sortBy; properties.sort sorts the array in place
sorted(props, req) ==
  LET sortBy == IF req.sort_by = "" THEN "newest" ELSE req.sort_by
      S == {props[i] : i \in DOMAIN props}
      price(p) == Nullish(p.price_usd, Num(0))
  IN  CASE sortBy = "price_asc" ->
             sort(props, [a \in S, b \in S |-> JsSub(price(a), price(b)).v])
        [] sortBy = "price_desc" ->
             sort(props, [a \in S, b \in S |-> JsSub(price(b), price(a)).v])
        [] sortBy = "score" ->
             sort(props, [a \in S, b \in S |-> score(b) - score(a)])
        [] OTHER -> props

\* a response whose total is the length of the page
paginateTotalOfPage(props, req) ==
  LET page == parseInt(orDefault(req.page, <<"1">>))
      pageSize == parseInt(orDefault(req.page_size, <<"2", "0">>))
      start == JsMul(JsSub(page, Num(1)), pageSize)
      results == slice(props, start, JsAdd(start, pageSize))
  IN  [endpoint |-> "query", status |-> 200, total |-> Len(results),
       page |-> page, page_size |-> pageSize, results |-> results,
       properties |-> props]

\* a response whose page starts at offset page - 1
paginateStartIsPage(props, req) ==
  LET page == parseInt(orDefault(req.page, <<"1">>))
      pageSize == parseInt(orDefault(req.page_size, <<"2", "0">>))
      start == JsSub(page, Num(1))
  IN  [endpoint |-> "query", status |-> 200, total |-> Len(props),
       page |-> page, page_size |-> pageSize,
       results |-> slice(props, start, JsAdd(start, pageSize)),
       properties |-> props]

\* the body of the response for the sorted array
paginate(props, req) ==
  LET page == parseInt(orDefault(req.page, <<"1">>))
      pageSize == parseInt(orDefault(req.page_size, <<"2", "0">>))
      start == JsMul(JsSub(page, Num(1)), pageSize)
  IN  [endpoint |-> "query", status |-> 200, total |-> Len(props),
       page |-> page, page_size |-> pageSize,
       results |-> slice(props, start, JsAdd(start, pageSize)),
       properties |-> props]

\* an exception that leaves the handler: Next.js answers 500 with no body
Threw(endpoint) == [endpoint |-> endpoint, status |-> 500]

\* On a string the handler gets as far as the first call of filter or sort,
\* which a string does not have (TypeError); length and slice it has.
stringPasses(req) ==
  /\ aliasesCache(req)
  /\ req.sort_by \notin {"price_asc", "price_desc", "score"}

GetProperties(req) ==
  LET l == loadProperties(cachedProperties)
      props == sorted(filtered(l.value, req), req)
  IN  /\ response = NoResponse
      /\ reads + l.read <= MaxReads
      /\ reads' = reads + l.read
      /\ request' = req
      /\ IF l.threw \/ (l.text /\ ~stringPasses(req))
         THEN /\ response' = Threw("query")
              /\ cachedProperties' = l.cache
         ELSE IF l.text
         THEN /\ response' = paginate(JsonText, req)
              /\ cachedProperties' = l.cache
         ELSE /\ response' = paginate(props, req)
              /\ cachedProperties' =
                   IF aliasesCache(req) THEN Loaded(props) ELSE l.cache
      /\ UNCHANGED <<client, fileContent, fileState, cached, inflight>>

\* the caller takes the response
Receive ==
  /\ response # NoResponse
  /\ response' = NoResponse
  /\ request' = NoRequest
  /\ UNCHANGED <<client, fileContent, fileState, cachedProperties, cached, reads,
                 inflight, pager, memo>>

\* ------------------------------------------------------------------------
\* The other route modules: load
\* ------------------------------------------------------------------------
\* a load that reads the source whether or not the cache is set
loadAlwaysReads(c) ==
  CASE fileState = "ok" ->
         [threw |-> FALSE, value |-> fileContent, text |-> FALSE,
          cache |-> Loaded(fileContent), read |-> 1]
    [] fileState = "text" ->
         [threw |-> FALSE, value |-> <<>>, text |-> TRUE,
          cache |-> LoadedText, read |-> 1]
    [] fileState = "missing" ->
         [threw |-> TRUE, value |-> <<>>, text |-> FALSE, cache |-> c,
          read |-> 0]
    [] OTHER ->
         [threw |-> TRUE, value |-> <<>>, text |-> FALSE, cache |-> c,
          read |-> 1]

\* a load that returns what it read without assigning it to the cache
loadForgetsCache(c) ==
  IF ~c.isNull
  THEN [threw |-> FALSE, value |-> c.arr, text |-> IsText(c), cache |-> c,
        read |-> 0]
  ELSE CASE fileState = "ok" ->
              [threw |-> FALSE, value |-> fileContent, text |-> FALSE,
               cache |-> c, read |-> 1]
         [] fileState = "text" ->
              [threw |-> FALSE, value |-> <<>>, text |-> TRUE, cache |-> c,
               read |-> 1]
         [] fileState = "missing" ->
              [threw |-> TRUE, value |-> <<>>, text |-> FALSE, cache |-> c,
               read |-> 0]
         [] OTHER ->
              [threw |-> TRUE, value |-> <<>>, text |-> FALSE, cache |-> c,
               read |-> 1]

\* a load that caches an empty collection when the read or the parse throws
loadCachesFailure(c) ==
  IF ~c.isNull
  THEN [threw |-> FALSE, value |-> c.arr, text |-> IsText(c), cache |-> c,
        read |-> 0]
  ELSE CASE fileState = "ok" ->
              [threw |-> FALSE, value |-> fileContent, text |-> FALSE,
               cache |-> Loaded(fileContent), read |-> 1]
         [] fileState = "text" ->
              [threw |-> FALSE, value |-> <<>>, text |-> TRUE,
               cache |-> LoadedText, read |-> 1]
         [] fileState = "missing" ->
              [threw |-> TRUE, value |-> <<>>, text |-> FALSE,
               cache |-> Loaded(<<>>), read |-> 0]
         [] OTHER ->
              [threw |-> TRUE, value |-> <<>>, text |-> FALSE,
               cache |-> Loaded(<<>>), read |-> 1]

\* load() of the :id, departments, stats and featured routes: the same code
\* four times over, each on the `cached` of its own module.
load(c) ==
  IF ~c.isNull
  THEN [threw |-> FALSE, value |-> c.arr, text |-> IsText(c), cache |-> c,
        read |-> 0]
  ELSE CASE fileState = "ok" ->
              [threw |-> FALSE, value |-> fileContent, text |-> FALSE,
               cache |-> Loaded(fileContent), read |-> 1]
         [] fileState = "text" ->
              [threw |-> FALSE, value |-> <<>>, text |-> TRUE,
               cache |-> LoadedText, read |-> 1]
         [] fileState = "missing" ->
              [threw |-> TRUE, value |-> <<>>, text |-> FALSE, cache |-> c,
               read |-> 0]
         [] OTHER ->
              [threw |-> TRUE, value |-> <<>>, text |-> FALSE, cache |-> c,
               read |-> 1]

\* what a handler of route e does to the shared state around its load()
Loads(e, l) ==
  /\ reads + l.read <= MaxReads
  /\ reads' = reads + l.read
  /\ cached' = [cached EXCEPT ![e] = l.cache]
  /\ UNCHANGED <<client, fileContent, fileState, cachedProperties>>

\* ------------------------------------------------------------------------
\* GET /api/properties/:id
\* ------------------------------------------------------------------------
\* a find that returns the first listing, whatever its id
findFirst(props, id) == IF props = <<>> THEN <<>> ELSE <<props[1]>>

\* props.find((p) => p.id === id): the first listing with that id, in an
\* array of one element, or the empty array for undefined
findById(props, id) ==
  LET hits == SelectSeq(props, LAMBDA p : p.id = id)
  IN  IF hits = <<>> THEN <<>> ELSE <<hits[1]>>

Awaiting == {r \in 1..NReq : inflight[r].pc = "awaiting"}

\* the handler runs up to `await params`
GetByIdStart(r, id) ==
  /\ inflight[r].pc = "idle"
  /\ inflight' =
       [x \in 1..NReq |->
          IF x = r
          THEN [pc |-> "awaiting", id |-> id, peers |-> Awaiting,
                cold |-> cached["byId"].isNull]
          ELSE IF inflight[x].pc = "awaiting"
          THEN [inflight[x] EXCEPT !.peers = @ \cup {r}]
          ELSE inflight[x]]
  /\ UNCHANGED <<client, fileContent, fileState, cachedProperties, cached, reads,
                 request, response, pager, memo>>

\* the rest of the handler, from the resumption to the response; a string
\* has no find (TypeError)
GetByIdFinish(r) ==
  LET id == inflight[r].id
      l == load(cached["byId"])
      property == findById(l.value, id)
      result == IF l.threw \/ l.text THEN [status |-> 500, body |-> <<>>]
                ELSE IF property = <<>> THEN [status |-> 404, body |-> <<>>]
                ELSE [status |-> 200, body |-> property]
  IN  /\ inflight[r].pc = "awaiting"
      /\ Loads("byId", l)
      /\ inflight' =
           [inflight EXCEPT ![r] =
              [pc |-> "done", id |-> id, peers |-> inflight[r].peers,
               cold |-> inflight[r].cold, read |-> l.read,
               threw |-> l.threw \/ l.text, props |-> l.value,
               status |-> result.status, body |-> result.body]]
      /\ UNCHANGED <<request, response, pager, memo>>

\* the caller takes the response of request r
ReceiveById(r) ==
  /\ inflight[r].pc = "done"
  /\ inflight' =
       [x \in 1..NReq |->
          IF x = r THEN [pc |-> "idle"]
          ELSE IF inflight[x].pc = "idle" THEN inflight[x]
          ELSE [inflight[x] EXCEPT !.peers = @ \ {r}]]
  /\ UNCHANGED <<client, fileContent, fileState, cachedProperties, cached, reads,
                 request, response, pager, memo>>

\* ------------------------------------------------------------------------
\* GET /api/properties/departments
\* ------------------------------------------------------------------------
Unknown == <<"U", "n", "k", "n", "o", "w", "n">>
Other == <<"O", "t", "h", "e", "r">>

\* CENTERS, [lng, lat] in hundredths of a degree.  The departments whose
\* names carry an accent are left out: no listing of the model names one.
CENTERS ==
  { [name |-> SantaAna, lng |-> -8956, lat |-> 1403],
    [name |-> <<"S", "o", "n", "s", "o", "n", "a", "t", "e">>,
     lng |-> -8972, lat |-> 1372],
    [name |-> <<"C", "h", "a", "l", "a", "t", "e", "n", "a", "n", "g", "o">>,
     lng |-> -8894, lat |-> 1417],
    [name |-> <<"L", "a", " ", "L", "i", "b", "e", "r", "t", "a", "d">>,
     lng |-> -8932, lat |-> 1360],
    [name |-> <<"S", "a", "n", " ", "S", "a", "l", "v", "a", "d", "o", "r">>,
     lng |-> -8919, lat |-> 1370],
    [name |-> LaPaz, lng |-> -8893, lat |-> 1344],
    [name |-> <<"S", "a", "n", " ", "V", "i", "c", "e", "n", "t", "e">>,
     lng |-> -8872, lat |-> 1363],
    [name |-> <<"S", "a", "n", " ", "M", "i", "g", "u", "e", "l">>,
     lng |-> -8820, lat |-> 1358] }

\* s.replace(/\s+/g, "-")
RECURSIVE dashSpaces(_)
dashSpaces(s) ==
  IF s = <<>> THEN <<>>
  ELSE IF Head(s) # " " THEN <<Head(s)>> \o dashSpaces(Tail(s))
  ELSE IF Len(s) > 1 /\ s[2] = " " THEN dashSpaces(Tail(s))
  ELSE <<"-">> \o dashSpaces(Tail(s))

\* toSlug; on the unaccented names of the model normalize("NFD") and the
\* removal of combining marks change nothing
toSlug(s) ==
  LET kept == {LOWER[i] : i \in DOMAIN LOWER}
                \cup {DIGITS[i] : i \in DOMAIN DIGITS} \cup {"-"}
  IN  SelectSeq(dashSpaces(toLowerCase(s)), LAMBDA c : c \in kept)

\* the keys of a Map in insertion order: each value of seq once, at the place
\* of its first occurrence
firstSeen(seq) ==
  LET firsts == {i \in DOMAIN seq : \A j \in 1..(i - 1) : seq[j] # seq[i]}
  IN  [k \in 1..Cardinality(firsts) |->
         seq[CHOOSE i \in firsts : Cardinality({j \in firsts : j < i}) = k - 1]]

RECURSIVE sum(_)
sum(seq) == IF seq = <<>> THEN 0 ELSE Head(seq) + sum(Tail(seq))

\* a mean that is truncated instead of rounded
flooredMean(total, n) == total \div n

\* Math.round(total / n) for total >= 0 and n > 0
roundedMean(total, n) == (2 * total + n) \div (2 * n)

\* a grouping key that is the department field as stored
deptAsStored(p) == p.department

\* const dept = p.department || "Unknown"
dept(p) == IF p.department # <<>> THEN p.department ELSE Unknown

\* a municipality key that is the municipio field as stored
muniAsStored(p) == p.municipio

\* const muni = p.municipio || "Other"
muni(p) == IF p.municipio # <<>> THEN p.municipio ELSE Other

\* a comparator that ranks the smaller count first
byCountAscending(S) == [a \in S, b \in S |-> a.count - b.count]

\* (a, b) => b.count - a.count, over the entries S
byCount(S) == [a \in S, b \in S |-> b.count - a.count]

\* the body of the departments response for the loaded array
aggregate(props) ==
  LET deptOf(p) == dept(p)
      muniOf(p) == muni(p)
      imageOf(p) == IF p.thumbnail_url # "" THEN p.thumbnail_url
                    ELSE IF p.images # <<>> THEN p.images[1] ELSE ""
      names == firstSeen([i \in DOMAIN props |-> deptOf(props[i])])
      entry(name) ==
        LET members == SelectSeq(props, LAMBDA p : deptOf(p) = name)
            priced == SelectSeq(members, LAMBDA p :
                        p.price_usd # null /\ p.price_usd.v > 0)
            prices == [i \in DOMAIN priced |-> priced[i].price_usd.v]
            munis == firstSeen([i \in DOMAIN members |-> muniOf(members[i])])
            shown == SelectSeq(members, LAMBDA p : imageOf(p) # "")
            here == {c \in CENTERS : c.name = name}
            municipalities ==
              [i \in DOMAIN munis |->
                 [name |-> munis[i], slug |-> toSlug(munis[i]),
                  count |-> Len(SelectSeq(members, LAMBDA p : muniOf(p) = munis[i]))]]
            M == {municipalities[i] : i \in DOMAIN municipalities}
        IN  [name |-> name,
             slug |-> toSlug(name),
             count |-> Len(members),
             avg_price |-> IF prices # <<>>
                           THEN Num(roundedMean(sum(prices), Len(prices)))
                           ELSE null,
             center |-> IF here # {}
                        THEN LET c == CHOOSE c \in here : TRUE
                             IN  <<c.lat, c.lng>>
                        ELSE <<>>,
             sample_image |-> IF shown # <<>> THEN imageOf(shown[1]) ELSE "",
             municipalities |->
               sort(municipalities, byCount(M))]
      departments == [i \in DOMAIN names |-> entry(names[i])]
      D == {departments[i] : i \in DOMAIN departments}
  IN  [endpoint |-> "departments", status |-> 200,
       departments |-> sort(departments, byCount(D)),
       total |-> Len(props)]

\* the body for a string: for...of walks its characters, whose department,
\* municipio, price_usd, thumbnail_url and images are all undefined
aggregateText(text) ==
  [endpoint |-> "departments", status |-> 200,
   departments |->
     <<[name |-> Unknown, slug |-> toSlug(Unknown), count |-> Len(text),
        avg_price |-> null, center |-> <<>>, sample_image |-> "",
        municipalities |->
          <<[name |-> Other, slug |-> toSlug(Other), count |-> Len(text)]>>]>>,
   total |-> Len(text)]

\* a departments handler that loads through the cache of the query module
GetDepartmentsOnQueryCache ==
  LET l == loadProperties(cachedProperties)
  IN  /\ response = NoResponse
      /\ reads + l.read <= MaxReads
      /\ reads' = reads + l.read
      /\ cachedProperties' = l.cache
      /\ request' = [endpoint |-> "departments"]
      /\ response' = IF l.threw THEN Threw("departments")
                     ELSE IF l.text THEN aggregateText(JsonText)
                     ELSE aggregate(l.value)
      /\ UNCHANGED <<client, fileContent, fileState, cached, inflight, pager, memo>>

GetDepartments ==
  LET l == load(cached["departments"])
  IN  /\ response = NoResponse
      /\ Loads("departments", l)
      /\ request' = [endpoint |-> "departments"]
      /\ response' = IF l.threw THEN Threw("departments")
                     ELSE IF l.text THEN aggregateText(JsonText)
                     ELSE aggregate(l.value)
      /\ UNCHANGED <<inflight, pager, memo>>

\* ------------------------------------------------------------------------
\* stats/route.ts: GET /api/properties/stats
\* ------------------------------------------------------------------------
\* a minimum that is the first element
MathMinIsFirst(xs) == xs[1]

\* Math.min(...xs) and Math.max(...xs) of a non-empty array of numbers
MathMin(xs) == CHOOSE x \in Elems(xs) : \A y \in Elems(xs) : x <= y
MathMax(xs) == CHOOSE x \in Elems(xs) : \A y \in Elems(xs) : x >= y

\* the body of the stats response for the loaded array (a string has no
\* map: TypeError)
summary(props) ==
  LET priced == SelectSeq(props, LAMBDA p :
                  p.price_usd # null /\ p.price_usd.v > 0)
      prices == [i \in DOMAIN priced |-> priced[i].price_usd.v]
      types == {props[i].property_type : i \in DOMAIN props} \ {<<>>}
      depts == {props[i].department : i \in DOMAIN props} \ {<<>>}
  IN  [endpoint |-> "stats", status |-> 200,
       total_listings |-> Len(props),
       avg_price_usd |-> IF prices # <<>>
                         THEN Num(roundedMean(sum(prices), Len(prices)))
                         ELSE null,
       min_price_usd |-> IF prices # <<>> THEN Num(MathMin(prices)) ELSE null,
       max_price_usd |-> IF prices # <<>> THEN Num(MathMax(prices)) ELSE null,
       departments_covered |-> Cardinality(depts),
       featured_count |-> Len(SelectSeq(props, LAMBDA p : p.is_featured)),
       by_type |-> [ty \in types |->
                      Len(SelectSeq(props, LAMBDA p : p.property_type = ty))]]

GetStats ==
  LET l == load(cached["stats"])
  IN  /\ response = NoResponse
      /\ Loads("stats", l)
      /\ request' = [endpoint |-> "stats"]
      /\ response' = IF l.threw \/ l.text THEN Threw("stats")
                     ELSE summary(l.value)
      /\ UNCHANGED <<inflight, pager, memo>>

\* ------------------------------------------------------------------------
\* GET /api/properties/featured
\* ------------------------------------------------------------------------
\* 100000 times the score of the featured route, which adds price / 100000
\* to the image and description terms; the comparator only uses the sign of
\* a difference of two scores
featuredScore(p) ==
  (Len(p.images) * 5 + (IF p.description # <<>> THEN 20 ELSE 0)) * 100000
    + (IF p.price_usd = null THEN 0 ELSE p.price_usd.v)

\* the body of the featured response for the loaded array (a string has
\* no filter: TypeError)
featured(props, limit) ==
  LET chosen == SelectSeq(props, LAMBDA p : p.is_featured)
      S == Elems(chosen)
      ranked == sort(chosen,
                     [a \in S, b \in S |-> featuredScore(b) - featuredScore(a)])
  IN  [endpoint |-> "featured", status |-> 200,
       results |-> slice(ranked, Num(0), parseInt(orDefault(limit, <<"8">>)))]

GetFeatured(limit) ==
  LET l == load(cached["featured"])
  IN  /\ response = NoResponse
      /\ Loads("featured", l)
      /\ request' = [endpoint |-> "featured", limit |-> limit]
      /\ response' = IF l.threw \/ l.text THEN Threw("featured")
                     ELSE featured(l.value, limit)
      /\ UNCHANGED <<inflight, pager, memo>>

\* ------------------------------------------------------------------------
\* The backing source
\* ------------------------------------------------------------------------
\* public/data/properties.json is written outside the service: it may be
\* removed, left unparsable, or put back.
SourceChanges ==
  /\ fileState' \in {"ok", "missing", "malformed"} \ {fileState}
  /\ UNCHANGED <<client, fileContent, cachedProperties, cached, reads, inflight,
                 request, response, pager, memo>>

\* ------------------------------------------------------------------------
\* Requests
\* ------------------------------------------------------------------------
santaAna == <<"s", "a", "n", "t", "a", " ", "a", "n", "a">>
SANTA_ANA == <<"S", "A", "N", "T", "A", " ", "A", "N", "A">>

DefaultReq == Req(<<>>, <<>>, <<>>, <<>>, <<>>, <<>>, "", "", <<>>, <<>>, <<>>)

\* every combination of the eight filters, each absent or supplied
FilterReqs ==
  { Req(d, m, lo, hi, ty, b, f, "", <<>>, <<>>, s) :
      d \in {<<>>, santaAna}, m \in {<<>>, <<"s">>},
      lo \in {<<>>, <<"2">>}, hi \in {<<>>, <<"1">>},
      ty \in {<<>>, <<"h">>}, b \in {<<>>, <<"2">>},
      f \in {"", "true"}, s \in {<<>>, <<"L">>} }

\* sort modes and pages, in and out of range
PageReqs ==
  { [DefaultReq EXCEPT !.department = d, !.sort_by = so, !.page = pg,
                       !.page_size = ps] :
      d \in {<<>>, santaAna},
      so \in {"", "newest", "price_asc", "price_desc", "score", "bogus"},
      pg \in {<<>>, <<"2">>, <<"3">>, <<"4">>, <<"0">>, <<"-", "1">>, <<"x">>},
      ps \in {<<>>, <<"1">>, <<"2">>, <<"0">>, <<"-", "1">>} }

\* price bounds: zero, non-numeric, infinite, and both at once
PriceReqs ==
  { [DefaultReq EXCEPT !.min_price = lo, !.max_price = hi] :
      lo \in {<<>>, <<"0">>, <<"1">>, <<"x">>},
      hi \in {<<>>, <<"0">>, <<"2">>, <<"x">>, INFINITY} }

\* text parameters in other spellings
TextReqs ==
  { [DefaultReq EXCEPT !.department = d, !.q = s, !.property_type = ty,
                       !.featured_only = f] :
      d \in {<<>>, SANTA_ANA, <<"a", "n", "a">>, LaPaz}, s \in {<<>>, <<"B">>, <<"o">>},
      ty \in {<<>>, <<"H">>}, f \in {"", "false"} }

QueryReqs == FilterReqs \cup PageReqs \cup PriceReqs \cup TextReqs

\* ------------------------------------------------------------------------
\* Observers
\* ------------------------------------------------------------------------
\* the configuration of a request: everything but the page
config(req) == [req EXCEPT !.page = <<>>]

\* A caller fetching pages 1, 2, ... of one configuration with no other
\* request in between; acc is the concatenation of the results so far.
pagerAfter(pg, req, resp) ==
  IF resp.status = 200 /\ resp.page.t = "num" /\ resp.page_size.t = "num"
     /\ resp.page_size.v >= 1
  THEN IF resp.page.v = 1
       THEN [active |-> TRUE, cfg |-> config(req), next |-> 2,
             acc |-> resp.results]
       ELSE IF pg.active /\ pg.cfg = config(req) /\ pg.next = resp.page.v
       THEN [active |-> TRUE, cfg |-> pg.cfg, next |-> pg.next + 1,
             acc |-> pg.acc \o resp.results]
       ELSE NoPager
  ELSE NoPager

\* ------------------------------------------------------------------------
\* The query engine alone: GET /api/properties over a readable source
\* ------------------------------------------------------------------------
InitReadable ==
  /\ fileContent \in Collections(MaxListings)
  /\ fileState = "ok"
  /\ cachedProperties = NullCache
  /\ cached = [r \in Routes |-> NullCache]
  /\ reads = 0
  /\ inflight = [r \in 1..NReq |-> [pc |-> "idle"]]
  /\ request = NoRequest
  /\ response = NoResponse
  /\ pager = NoPager
  /\ memo = NoMemo
  /\ client = NoClient

QueryStep ==
  \E req \in QueryReqs :
    /\ GetProperties(req)
    /\ UNCHANGED <<pager, memo>>

NextQuery == QueryStep \/ Receive

SpecQuery == InitReadable /\ [][NextQuery]_vars

\* ------------------------------------------------------------------------
\* The query engine under a caller that pages through the results
\* ------------------------------------------------------------------------
\* the requests of callers that walk the pages of a configuration
WalkReqs ==
  { [DefaultReq EXCEPT !.department = d, !.sort_by = so, !.page = pg,
                       !.page_size = ps] :
      d \in {<<>>, santaAna},
      so \in {"", "price_asc", "price_desc", "score"},
      pg \in {<<>>, <<"2">>, <<"3">>, <<"4">>},
      ps \in {<<"1">>, <<"2">>} }

PageStep ==
  \E req \in WalkReqs :
    /\ GetProperties(req)
    /\ pager' = pagerAfter(pager, req, response')
    /\ UNCHANGED memo

NextPages == PageStep \/ Receive

SpecPages == InitReadable /\ [][NextPages]_vars

\* ------------------------------------------------------------------------
\* Properties of the query engine
\* ------------------------------------------------------------------------
Answered == response.endpoint = "query" /\ response.status = 200

eqIgnoreCase(a, b) ==
  Len(a) = Len(b) /\ \A i \in DOMAIN a : toLowerChar(a[i]) = toLowerChar(b[i])

containsIgnoreCase(s, sub) ==
  \E k \in 0..(Len(s) - Len(sub)) :
    \A i \in DOMAIN sub : toLowerChar(s[k + i]) = toLowerChar(sub[i])

priceOr0(l) == IF l.price_usd = null THEN 0 ELSE l.price_usd.v
bedroomsOr0(l) == IF l.bedrooms = null THEN 0 ELSE l.bedrooms.v

\* every supplied numeric parameter of req is a number
NumericBounds(req) ==
  /\ req.min_price # <<>> => parseFloat(req.min_price).t = "num"
  /\ req.max_price # <<>> => parseFloat(req.max_price).t = "num"
  /\ req.bedrooms # <<>> => parseInt(req.bedrooms).t = "num"

\* listing l satisfies every filter that req supplies
Satisfies(l, req) ==
  /\ req.department # <<>> => eqIgnoreCase(l.department, req.department)
  /\ req.municipio # <<>> => containsIgnoreCase(l.municipio, req.municipio)
  /\ req.min_price # <<>> => priceOr0(l) >= parseFloat(req.min_price).v
  /\ req.max_price # <<>> =>
       l.price_usd # null /\ l.price_usd.v <= parseFloat(req.max_price).v
  /\ req.property_type # <<>> => eqIgnoreCase(l.property_type, req.property_type)
  /\ req.bedrooms # <<>> => bedroomsOr0(l) >= parseInt(req.bedrooms).v
  /\ req.featured_only = "true" => l.is_featured
  /\ req.q # <<>> =>
       \/ containsIgnoreCase(l.title, req.q)
       \/ containsIgnoreCase(l.department, req.q)
       \/ containsIgnoreCase(l.municipio, req.q)
       \/ containsIgnoreCase(l.description, req.q)

\* C1: the filtered set of GET /properties is exactly the set of listings of
\* the store that satisfy all supplied filter predicates (max_price being a
\* statement about priced listings): none in it violates one, none that
\* satisfies them all is missing.
C1_FilterExact ==
  (Answered /\ NumericBounds(request)) =>
    /\ Elems(response.properties) \subseteq Elems(fileContent)
    /\ \A l \in Elems(fileContent) :
         (request.max_price # <<>> => l.price_usd # null) =>
           (l \in Elems(response.properties) <=> Satisfies(l, request))

C1_Witness ==
  /\ Answered
  /\ request.department # <<>>
  /\ request.min_price # <<>>
  /\ request.property_type # <<>>
  /\ Len(fileContent) = 3
  /\ Len(response.properties) = 1

\* C8: total is the number of listings that pass the supplied filters,
\* whatever page, page_size and sort_by are.
C8_TotalIsFilteredCount ==
  (Answered /\ NumericBounds(request)) =>
    response.total =
      Cardinality({l \in Elems(fileContent) : Satisfies(l, request)})

C8_Witness ==
  /\ Answered
  /\ request.department # <<>>
  /\ request.sort_by = "price_desc"
  /\ request.page = <<"2">>
  /\ request.page_size = <<"1">>
  /\ response.total = 2
  /\ Len(response.results) = 1
  /\ Len(fileContent) = 3

pageOf(req) == parseInt(orDefault(req.page, <<"1">>))
pageSizeOf(req) == parseInt(orDefault(req.page_size, <<"2", "0">>))

\* the request asks for a page that starts at or after the end
BeyondEnd(req) ==
  /\ req.endpoint = "query"
  /\ NumericBounds(req)
  /\ pageOf(req).t = "num" /\ pageOf(req).v >= 1
  /\ pageSizeOf(req).t = "num" /\ pageSizeOf(req).v >= 1
  /\ (pageOf(req).v - 1) * pageSizeOf(req).v >=
       Cardinality({l \in Elems(fileContent) : Satisfies(l, req)})

\* C9: a page that starts at or after the end of the filtered set is
\* answered without error, with no results and the correct total.
C9_PageBeyondEnd ==
  BeyondEnd(request) =>
    /\ response.status = 200
    /\ response.results = <<>>
    /\ response.total =
         Cardinality({l \in Elems(fileContent) : Satisfies(l, request)})

C9_Witness ==
  /\ BeyondEnd(request)
  /\ request.page = <<"3">>
  /\ request.page_size = <<"2">>
  /\ response.total = 3

withoutPriceBounds(req) == [req EXCEPT !.min_price = <<>>, !.max_price = <<>>]

\* the unpriced listings that pass the filters of req other than the price
\* bounds
UnpricedCandidates(req) ==
  {l \in Elems(fileContent) :
     l.price_usd = null /\ Satisfies(l, withoutPriceBounds(req))}

\* C10 as claimed: a listing with a null price passes the max_price filter
\* for every value of max_price.
C10_NullPassesMaxPrice ==
  (Answered /\ request.max_price # <<>> /\ request.min_price = <<>>) =>
    UnpricedCandidates(request) \subseteq Elems(response.properties)

\* C10 as amended: a null price counts as +Infinity for max_price, so the
\* listing fails the max_price filter for every supplied bound but Infinity;
\* it counts as 0 for min_price, so it passes that filter exactly when the
\* bound is a number not above 0.
C10_NullFailsFiniteMaxPrice ==
  Answered =>
    \A l \in UnpricedCandidates(request) :
      l \in Elems(response.properties) <=>
        /\ request.max_price # <<>> => parseFloat(request.max_price) = Infinity
        /\ request.min_price # <<>> =>
             LET min == parseFloat(request.min_price)
             IN  (min.t = "num" /\ min.v <= 0) \/ min = NegInfinity

C10_Witness ==
  /\ Answered
  /\ request.max_price = <<"2">>
  /\ request.min_price = <<>>
  /\ UnpricedCandidates(request) # {}
  /\ response.properties # <<>>
  /\ \A l \in Elems(response.properties) : l.price_usd # null

InitCatalogue ==
  /\ fileContent \in Catalogues(MaxListings)
  /\ fileState = "ok"
  /\ cachedProperties = NullCache
  /\ cached = [r \in Routes |-> NullCache]
  /\ reads = 0
  /\ inflight = [r \in 1..NReq |-> [pc |-> "idle"]]
  /\ request = NoRequest
  /\ response = NoResponse
  /\ pager = NoPager
  /\ memo = NoMemo
  /\ client = NoClient

SortReqs ==
  { [DefaultReq EXCEPT !.department = d, !.sort_by = so] :
      d \in {<<>>, santaAna},
      so \in {"", "price_asc", "price_desc", "score"} }

SortStep ==
  \E req \in SortReqs :
    /\ GetProperties(req)
    /\ UNCHANGED <<pager, memo>>

NextSort == SortStep \/ Receive

SpecSort == InitCatalogue /\ [][NextSort]_vars

\* C11: with sort_by=price_asc the filtered set is in non-decreasing order
\* of price and with sort_by=price_desc in non-increasing order, a null price
\* counting as 0; a listing with a null price is the first of a price_asc
\* result and the last of a price_desc result when no other listing of the
\* result has price 0 or null.
C11_PriceOrder ==
  Answered =>
    LET ps == response.properties
        alone(i) == /\ ps[i].price_usd = null
                    /\ \A j \in DOMAIN ps \ {i} : priceOr0(ps[j]) # 0
    IN  /\ request.sort_by = "price_asc" =>
             /\ \A i, j \in DOMAIN ps :
                  i < j => priceOr0(ps[i]) <= priceOr0(ps[j])
             /\ \A i \in DOMAIN ps : alone(i) => i = 1
        /\ request.sort_by = "price_desc" =>
             /\ \A i, j \in DOMAIN ps :
                  i < j => priceOr0(ps[i]) >= priceOr0(ps[j])
             /\ \A i \in DOMAIN ps : alone(i) => i = Len(ps)

C11_Witness ==
  /\ Answered
  /\ request.sort_by = "price_asc"
  /\ Len(response.properties) = 3
  /\ response.properties[1].price_usd = null
  /\ response.properties[3].price_usd = Num(2)
  /\ fileContent[1].price_usd = Num(2)
  /\ fileContent[3].price_usd = null

\* ------------------------------------------------------------------------
\* GET /api/properties/:id with several requests in flight
\* ------------------------------------------------------------------------
Ids == {"a", "zz"}

ByIdStep ==
  \E r \in 1..NReq :
    \/ \E id \in Ids : GetByIdStart(r, id)
    \/ GetByIdFinish(r)
    \/ ReceiveById(r)

NextById == ByIdStep

SpecById == InitReadable /\ [][NextById]_vars

\* ------------------------------------------------------------------------
\* The whole service: the five routes over a source that may fail
\* ------------------------------------------------------------------------
ServiceReqs == {DefaultReq, [DefaultReq EXCEPT !.sort_by = "price_desc"]}

Init ==
  /\ fileContent \in Collections(MaxListings)
  /\ fileState \in {"ok", "missing", "malformed"}
  /\ cachedProperties = NullCache
  /\ cached = [r \in Routes |-> NullCache]
  /\ reads = 0
  /\ inflight = [r \in 1..NReq |-> [pc |-> "idle"]]
  /\ request = NoRequest
  /\ response = NoResponse
  /\ pager = NoPager
  /\ memo = NoMemo
  /\ client = NoClient

Query ==
  \E req \in ServiceReqs :
    /\ GetProperties(req)
    /\ UNCHANGED <<pager, memo>>

ById ==
  \/ \E id \in Ids : GetByIdStart(1, id)
  \/ GetByIdFinish(1)
  \/ ReceiveById(1)

Featured == \E limit \in {<<>>, <<"1">>} : GetFeatured(limit)

Next ==
  \/ Query
  \/ ById
  \/ GetDepartments
  \/ GetStats
  \/ Featured
  \/ Receive
  \/ SourceChanges

Spec == Init /\ [][Next]_vars

\* ------------------------------------------------------------------------
\* The query engine under a caller that repeats a request
\* ------------------------------------------------------------------------
RepeatReqs ==
  { [DefaultReq EXCEPT !.sort_by = so, !.page_size = ps] :
      so \in {"", "price_asc", "price_desc", "score"},
      ps \in {<<>>, <<"1">>} }

\* the caller may keep any request together with the response it got
RepeatStep ==
  \E req \in RepeatReqs :
    /\ GetProperties(req)
    /\ memo' \in {memo, [set |-> TRUE, request |-> req, response |-> response']}
    /\ UNCHANGED pager

NextRepeat == RepeatStep \/ Receive

SpecRepeat == InitReadable /\ [][NextRepeat]_vars

\* ------------------------------------------------------------------------
\* Properties of the listing store
\* ------------------------------------------------------------------------
\* C3: the store is read-only: the cached collection keeps the elements and
\* the order of the collection that was loaded, whatever requests are served.
C3_CacheKeepsLoadedOrder ==
  ~cachedProperties.isNull => cachedProperties.arr = fileContent

\* the listings of the source that are in arr, in the order of the source
NaturalOrder(arr) == SelectSeq(fileContent, LAMBDA l : l \in Elems(arr))

\* C4: with sort_by=newest or no sort_by, the filtered set is in the natural
\* order of the source, whatever requests were served before.
C4_NewestIsNaturalOrder ==
  (Answered /\ request.sort_by \in {"", "newest"}) =>
    response.properties = NaturalOrder(response.properties)

\* C5: two requests with the same parameters get the same total and the same
\* results in the same order, whatever was served between them.
C5_SameRequestSameResponse ==
  (Answered /\ memo.set /\ memo.request = request) =>
    /\ response.total = memo.response.total
    /\ response.results = memo.response.results

CacheOf(cp, c, e) == IF e = "query" THEN cp ELSE c[e]

RacedCold(r1, r2) ==
  /\ r1 # r2
  /\ inflight[r1].pc = "done" /\ inflight[r2].pc = "done"
  /\ r2 \in inflight[r1].peers /\ r1 \in inflight[r2].peers
  /\ inflight[r1].cold /\ inflight[r2].cold

\* C7: of the first requests to /properties/:id that are in flight together
\* on a cold cache, at most one reads the source, and all of them are
\* answered from the same loaded collection.
C7_ConcurrentFirstRequestsReadOnce ==
  \A r1, r2 \in 1..NReq :
    RacedCold(r1, r2) =>
      /\ reads <= 1
      /\ inflight[r1].read + inflight[r2].read <= 1
      /\ ~inflight[r1].threw /\ ~inflight[r2].threw
      /\ inflight[r1].props = inflight[r2].props

C7_Witness ==
  /\ RacedCold(1, 2)
  /\ inflight[1].read = 0
  /\ inflight[2].read = 1
  /\ inflight[1].status = 200
  /\ inflight[2].status = 404

\* ------------------------------------------------------------------------
\* The aggregation views: /departments and /stats over the catalogue
\* ------------------------------------------------------------------------
NextViews == GetDepartments \/ GetStats \/ Receive

SpecViews == InitCatalogue /\ [][NextViews]_vars

DepartmentsAnswered ==
  response.endpoint = "departments" /\ response.status = 200

\* the bucket a listing is counted in, and its municipality inside it
BucketOf(l) == IF l.department = <<>> THEN Unknown ELSE l.department
TownOf(l) == IF l.municipio = <<>> THEN Other ELSE l.municipio

\* the listings of the source counted in department d, in source order
InDepartment(d) == SelectSeq(fileContent, LAMBDA l : BucketOf(l) = d)

\* C12: the counts of the departments add up to total, which is the size of
\* the collection; every department's count is the number of listings of
\* that department, a listing with an empty department being counted under
\* "Unknown"; no department is listed twice.
C12_DepartmentCountsSum ==
  DepartmentsAnswered =>
    LET ds == response.departments
    IN  /\ sum([i \in DOMAIN ds |-> ds[i].count]) = response.total
        /\ response.total = Len(fileContent)
        /\ \A i, j \in DOMAIN ds : ds[i].name = ds[j].name => i = j
        /\ \A i \in DOMAIN ds : ds[i].count = Len(InDepartment(ds[i].name))
        /\ \A l \in Elems(fileContent) :
             \E i \in DOMAIN ds : ds[i].name = BucketOf(l)

C12_Witness ==
  /\ DepartmentsAnswered
  /\ response.total = 3
  /\ Len(response.departments) = 2
  /\ \E i \in DOMAIN response.departments :
       /\ response.departments[i].name = Unknown
       /\ response.departments[i].count = 1
  /\ \E l \in Elems(fileContent) : l.department = <<>>

\* the positive prices of the listings of department d
PositivePrices(ls) ==
  LET priced == SelectSeq(ls, LAMBDA l :
                  l.price_usd # null /\ l.price_usd.v > 0)
  IN  [i \in DOMAIN priced |-> priced[i].price_usd.v]

\* C13 as claimed: avg_price is the arithmetic mean of the positive prices
\* of the department, and null when it has none.
C13_AvgIsMean ==
  DepartmentsAnswered =>
    \A i \in DOMAIN response.departments :
      LET d == response.departments[i]
          prices == PositivePrices(InDepartment(d.name))
      IN  IF prices = <<>> THEN d.avg_price = null
          ELSE /\ d.avg_price.t = "num"
               /\ d.avg_price.v * Len(prices) = sum(prices)

\* a is the mean total / n rounded to the nearest integer, halves upwards
IsRounded(a, total, n) ==
  /\ 2 * a * n - n <= 2 * total
  /\ 2 * total < 2 * a * n + n

\* C13 as amended: avg_price is the arithmetic mean of the positive prices
\* of the department rounded to the nearest integer (Math.round), and null
\* when the department has no listing with a positive price.
C13_AvgIsRoundedMean ==
  DepartmentsAnswered =>
    \A i \in DOMAIN response.departments :
      LET d == response.departments[i]
          prices == PositivePrices(InDepartment(d.name))
      IN  IF prices = <<>> THEN d.avg_price = null
          ELSE /\ d.avg_price.t = "num"
               /\ IsRounded(d.avg_price.v, sum(prices), Len(prices))

C13_Witness ==
  /\ DepartmentsAnswered
  /\ Len(response.departments) = 2
  /\ response.departments[1].avg_price = Num(2)
  /\ PositivePrices(InDepartment(response.departments[1].name)) = <<1, 2>>
  /\ response.departments[2].avg_price = null

\* the place in the source of the first listing counted in department d,
\* and of the first one of municipality t inside it
FirstOfDepartment(d) ==
  CHOOSE i \in DOMAIN fileContent :
    /\ BucketOf(fileContent[i]) = d
    /\ \A j \in 1..(i - 1) : BucketOf(fileContent[j]) # d

FirstOfTown(d, t) ==
  CHOOSE i \in DOMAIN fileContent :
    /\ BucketOf(fileContent[i]) = d /\ TownOf(fileContent[i]) = t
    /\ \A j \in 1..(i - 1) :
         ~(BucketOf(fileContent[j]) = d /\ TownOf(fileContent[j]) = t)

\* C14: departments come in descending order of count, and so do the
\* municipalities of each department; of two entries with the same count the
\* one met first in the collection comes first.
C14_RankedByCountStable ==
  DepartmentsAnswered =>
    LET ds == response.departments
    IN  /\ \A i, j \in DOMAIN ds :
             i < j =>
               \/ ds[i].count > ds[j].count
               \/ /\ ds[i].count = ds[j].count
                  /\ FirstOfDepartment(ds[i].name) < FirstOfDepartment(ds[j].name)
        /\ \A k \in DOMAIN ds :
             LET ms == ds[k].municipalities
             IN  \A i, j \in DOMAIN ms :
                   i < j =>
                     \/ ms[i].count > ms[j].count
                     \/ /\ ms[i].count = ms[j].count
                        /\ FirstOfTown(ds[k].name, ms[i].name)
                             < FirstOfTown(ds[k].name, ms[j].name)

C14_Witness ==
  /\ DepartmentsAnswered
  /\ Len(response.departments) = 1
  /\ response.departments[1].count = 3
  /\ Len(response.departments[1].municipalities) = 2
  /\ response.departments[1].municipalities[1].count = 2
  /\ TownOf(fileContent[1]) = response.departments[1].municipalities[2].name

StatsAnswered == response.endpoint = "stats" /\ response.status = 200

\* C19: the stats response counts the whole collection; its average,
\* minimum and maximum price are taken over exactly the listings with a
\* positive price (the average rounded by Math.round) and are null when
\* there is none; departments_covered counts the distinct non-empty
\* department names, featured_count the featured listings, and by_type maps
\* every property type that occurs to the number of listings of that type.
C19_StatsSummary ==
  StatsAnswered =>
    LET prices == PositivePrices(fileContent)
        types == {l.property_type : l \in Elems(fileContent)} \ {<<>>}
    IN  /\ response.total_listings = Len(fileContent)
        /\ IF prices = <<>>
           THEN /\ response.avg_price_usd = null
                /\ response.min_price_usd = null
                /\ response.max_price_usd = null
           ELSE /\ response.avg_price_usd.t = "num"
                /\ IsRounded(response.avg_price_usd.v, sum(prices), Len(prices))
                /\ response.min_price_usd.t = "num"
                /\ response.min_price_usd.v \in Elems(prices)
                /\ \A x \in Elems(prices) : response.min_price_usd.v <= x
                /\ response.max_price_usd.t = "num"
                /\ response.max_price_usd.v \in Elems(prices)
                /\ \A x \in Elems(prices) : response.max_price_usd.v >= x
        /\ response.departments_covered =
             Cardinality({l.department : l \in Elems(fileContent)} \ {<<>>})
        /\ response.featured_count =
             Cardinality({l \in Elems(fileContent) : l.is_featured})
        /\ DOMAIN response.by_type = types
        /\ \A ty \in types :
             response.by_type[ty] =
               Cardinality({l \in Elems(fileContent) : l.property_type = ty})

C19_Witness ==
  /\ StatsAnswered
  /\ response.total_listings = 3
  /\ response.min_price_usd = Num(1)
  /\ response.max_price_usd = Num(2)
  /\ response.avg_price_usd = Num(2)
  /\ fileContent[1].price_usd = Num(2)
  /\ \E l \in Elems(fileContent) : l.price_usd = Num(0)
  /\ response.departments_covered = 1
  /\ response.featured_count = 1

\* ------------------------------------------------------------------------
\* Properties of GET /api/properties/:id
\* ------------------------------------------------------------------------
\* C15: a request for an id is answered with the listing of the collection
\* that has this id when there is one, and with 404 and no listing exactly
\* when no listing has it.
C15_ByIdFoundOrNotFound ==
  \A r \in 1..NReq :
    (inflight[r].pc = "done" /\ ~inflight[r].threw) =>
      LET hits == {l \in Elems(fileContent) : l.id = inflight[r].id}
      IN  IF hits = {}
          THEN inflight[r].status = 404 /\ inflight[r].body = <<>>
          ELSE /\ inflight[r].status = 200
               /\ Len(inflight[r].body) = 1
               /\ Elems(inflight[r].body) = hits

C15_Witness ==
  /\ inflight[1].pc = "done" /\ inflight[2].pc = "done"
  /\ inflight[1].status = 200
  /\ inflight[1].body[1].id = "a"
  /\ Len(fileContent) = 3
  /\ fileContent[3].id = "a"
  /\ inflight[2].status = 404
  /\ inflight[2].id = "zz"

\* ------------------------------------------------------------------------
\* The five routes over a source that may be missing, unparsable, or hold
\* JSON that is not a collection
\* ------------------------------------------------------------------------
SourceStates == {"ok", "missing", "malformed", "text"}

InitSource ==
  /\ fileContent \in Collections(1)
  /\ fileState \in SourceStates
  /\ cachedProperties = NullCache
  /\ cached = [r \in Routes |-> NullCache]
  /\ reads = 0
  /\ inflight = [r \in 1..NReq |-> [pc |-> "idle"]]
  /\ request = NoRequest
  /\ response = NoResponse
  /\ pager = NoPager
  /\ memo = NoMemo
  /\ client = NoClient

\* the file is removed, put back, or rewritten outside the service
SourceRewritten ==
  /\ fileState' \in SourceStates \ {fileState}
  /\ UNCHANGED <<client, fileContent, cachedProperties, cached, reads, inflight,
                 request, response, pager, memo>>

NextSource ==
  \/ Query
  \/ ById
  \/ GetDepartments
  \/ GetStats
  \/ Featured
  \/ Receive
  \/ SourceRewritten

SpecSource == InitSource /\ [][NextSource]_vars

\* the response is a failure: an error status and nothing of a result
Failure(resp) == resp.status >= 500 /\ DOMAIN resp = {"endpoint", "status"}

\* C16: a request that has to load the collection while the source is
\* missing or malformed fails, and the caller gets no result, partial or
\* degraded.
C16_UnreadableSourceFails ==
  [][ /\ \A e \in Endpoints \ {"byId"} :
           ( /\ response = NoResponse
             /\ response' # NoResponse
             /\ response'.endpoint = e
             /\ fileState # "ok"
             /\ CacheOf(cachedProperties, cached, e).isNull )
             => Failure(response')
      /\ ( /\ inflight[1].pc = "awaiting"
           /\ inflight'[1].pc = "done"
           /\ fileState # "ok"
           /\ cached["byId"].isNull )
           => inflight'[1].status >= 500 /\ inflight'[1].body = <<>> ]_vars

\* C18: a failure to load the collection is answered with status 503, an
\* invalid query with 400, and an id that no listing has with 404; no other
\* error status is given.
C18_ErrorStatuses ==
  /\ response # NoResponse =>
       /\ response.status \in {200, 400, 503}
       /\ response.status = 503 <=> DOMAIN response = {"endpoint", "status"}
  /\ \A r \in 1..NReq :
       inflight[r].pc = "done" =>
         /\ inflight[r].status \in {200, 404, 503}
         /\ inflight[r].status = 503 <=> inflight[r].threw

\* ------------------------------------------------------------------------
\* Properties of the parameters of GET /api/properties
\* ------------------------------------------------------------------------
SortModes == {"newest", "price_asc", "price_desc", "score"}

\* a parameter of req is outside its domain: a price bound that is not a
\* number, a negative page, or a sort_by that names no sort mode
OutsideDomain(req) ==
  \/ req.min_price # <<>> /\ parseFloat(req.min_price) = NaN
  \/ req.max_price # <<>> /\ parseFloat(req.max_price) = NaN
  \/ pageOf(req).t = "num" /\ pageOf(req).v < 0
  \/ req.sort_by # "" /\ req.sort_by \notin SortModes

\* C17: a request with a parameter outside its domain is refused: it is not
\* answered as a successful query and carries no results.
C17_InvalidQueryRejected ==
  (response.endpoint = "query" /\ OutsideDomain(request)) =>
    /\ response.status # 200
    /\ "results" \notin DOMAIN response

\* C20: for integers page and page_size, positive or not, the request is
\* answered without error, results holds at most page_size listings (none
\* when page_size <= 0), and none of them lies before offset
\* (page - 1) * page_size of the filtered and sorted set.
C20_PageIsBoundedSlice ==
  ( /\ response.endpoint = "query"
    /\ pageOf(request).t = "num"
    /\ pageSizeOf(request).t = "num" ) =>
    LET size == pageSizeOf(request).v
        offset == (pageOf(request).v - 1) * size
        ps == response.properties
    IN  /\ response.status = 200
        /\ Len(response.results) <= (IF size > 0 THEN size ELSE 0)
        /\ \A x \in Elems(response.results) :
             \A i \in DOMAIN ps : ps[i] = x => i > offset

\* ------------------------------------------------------------------------
\* Properties of the score sort and of the filter passes
\* ------------------------------------------------------------------------
\* the desirability score of a listing
Desirability(l) ==
  (IF l.is_featured THEN 100 ELSE 0) + 5 * Len(l.images)
    + (IF l.description = <<>> THEN 0 ELSE 20)

\* the place of listing l in arr
PlaceIn(arr, l) == CHOOSE i \in DOMAIN arr : arr[i] = l

\* the array the handler starts from: the cache, or the source when the cache
\* is unset
Served == IF cachedProperties.isNull THEN fileContent ELSE cachedProperties.arr

\* C21: a request with sort_by=score leaves the filtered set in
\* non-increasing order of score, and two listings of equal score in the
\* relative order they had before the sort, that is in the array the filters
\* were applied to.
C21_ScoreOrderStable ==
  [][ ( /\ response = NoResponse
        /\ response'.endpoint = "query"
        /\ response'.status = 200
        /\ request'.sort_by = "score" ) =>
        LET ps == response'.properties
        IN  \A i, j \in DOMAIN ps :
              i < j =>
                \/ Desirability(ps[i]) > Desirability(ps[j])
                \/ /\ Desirability(ps[i]) = Desirability(ps[j])
                   /\ PlaceIn(Served, ps[i]) < PlaceIn(Served, ps[j]) ]_vars

C21_Witness ==
  /\ Answered
  /\ request.sort_by = "score"
  /\ Len(response.properties) = 3
  /\ response.properties[1].id = "d"
  /\ response.properties[2].id = "a"
  /\ response.properties[3].id = "e"
  /\ fileContent[1].id = "a"
  /\ fileContent[2].id = "e"

\* the passes that run for req, and the orders they can be applied in
Supplied(req) == {k \in 1..8 : passRuns(k, req)}

Orders(S) ==
  {o \in [1..Cardinality(S) -> S] : \A i, j \in DOMAIN o : o[i] = o[j] => i = j}

OrderReqs == {req \in FilterReqs : Cardinality(Supplied(req)) <= MaxSupplied}

\* the filter passes of a request applied to the source in some order
FilterInOrder ==
  \E req \in OrderReqs :
    \E order \in Orders(Supplied(req)) :
      /\ response = NoResponse
      /\ request' = req
      /\ response' = [endpoint |-> "filter", status |-> 200, order |-> order,
                      properties |-> filteredInOrder(fileContent, req, order)]
      /\ UNCHANGED <<client, fileContent, fileState, cachedProperties, cached, reads,
                     inflight, pager, memo>>

NextFilterOrder == FilterInOrder \/ Receive

SpecFilterOrder == InitReadable /\ [][NextFilterOrder]_vars

\* C22: in whatever order the supplied filters are applied, the filtered set
\* is the one the handler computes: the same listings in the same relative
\* order.
C22_FilterOrderIrrelevant ==
  response.endpoint = "filter" =>
    response.properties = filtered(fileContent, request)

C22_Witness ==
  /\ response.endpoint = "filter"
  /\ Len(response.order) = 3
  /\ response.order[1] > response.order[2]
  /\ response.order[2] > response.order[3]
  /\ Len(fileContent) = 3
  /\ Len(response.properties) = 1

\* ------------------------------------------------------------------------
\* The departments view next to the query engine
\* ------------------------------------------------------------------------
NextBoth == SortStep \/ GetDepartments \/ Receive

SpecBoth == InitCatalogue /\ [][NextBoth]_vars

\* C23: whatever GET /properties requests were served before it, the
\* departments response is the one computed from the collection as loaded:
\* the same departments and municipalities in the same order, with the same
\* sample images.
C23_DepartmentsIgnoreQueries ==
  DepartmentsAnswered => response = aggregate(fileContent)

\* the departments were served after a query had reordered the cache of the
\* query module, in a way that would have changed the response
C23_Witness ==
  /\ DepartmentsAnswered
  /\ ~cachedProperties.isNull
  /\ cachedProperties.arr # fileContent
  /\ aggregate(cachedProperties.arr) # response
  /\ Len(response.departments) = 2
  /\ response.departments[1].count = response.departments[2].count

\* C29: inside every department the counts of the municipalities add up to
\* the count of the department; every municipality's count is the number of
\* listings of the department with that municipio, a listing with an empty
\* municipio being counted under "Other"; no municipality is listed twice.
C29_MunicipalityCountsSum ==
  DepartmentsAnswered =>
    \A k \in DOMAIN response.departments :
      LET d == response.departments[k]
          ms == d.municipalities
          members == InDepartment(d.name)
      IN  /\ sum([i \in DOMAIN ms |-> ms[i].count]) = d.count
          /\ \A i, j \in DOMAIN ms : ms[i].name = ms[j].name => i = j
          /\ \A i \in DOMAIN ms :
               ms[i].count =
                 Len(SelectSeq(members, LAMBDA l : TownOf(l) = ms[i].name))
          /\ \A l \in Elems(members) :
               \E i \in DOMAIN ms : ms[i].name = TownOf(l)

C29_Witness ==
  /\ DepartmentsAnswered
  /\ Len(response.departments) = 2
  /\ response.departments[1].count = 2
  /\ Len(response.departments[1].municipalities) = 2
  /\ response.departments[2].name = Unknown
  /\ response.departments[2].municipalities[1].name = Other
  /\ response.departments[2].municipalities[1].count = 1

\* ------------------------------------------------------------------------
\* explore/[department]/page.tsx: the department page
\* ------------------------------------------------------------------------
\* DEPARTMENTS, the names departmentFromSlug can return (those of CENTERS;
\* again without the accented ones)
DEPARTMENTS == {c.name : c \in CENTERS}

\* the page_size of the request the page sends
DepartmentPageSize == <<"6", "0", "0">>

\* fetch(`/api/properties?department=${deptName}&page_size=600`)
pageRequest(deptName) ==
  [DefaultReq EXCEPT !.department = deptName, !.page_size = DepartmentPageSize]

\* useMemo "Aggregate municipalities" over the properties the page holds
\* (without the coordinates, which the listings of the model do not carry)
pageMunicipalities(properties) ==
  LET sampleOf(p) == IF p.thumbnail_url # "" THEN p.thumbnail_url
                     ELSE IF p.images # <<>> THEN p.images[1] ELSE ""
      names == firstSeen([i \in DOMAIN properties |-> muni(properties[i])])
      entry(name) ==
        LET members == SelectSeq(properties, LAMBDA p : muni(p) = name)
            prices == PositivePrices(members)
            shown == SelectSeq(members, LAMBDA p : sampleOf(p) # "")
        IN  [name |-> name, slug |-> toSlug(name), count |-> Len(members),
             avg_price |-> IF prices # <<>>
                           THEN Num(roundedMean(sum(prices), Len(prices)))
                           ELSE null,
             featured |-> Len(SelectSeq(members, LAMBDA p : p.is_featured)),
             sample |-> IF shown # <<>> THEN sampleOf(shown[1]) ELSE ""]
      entries == [i \in DOMAIN names |-> entry(names[i])]
  IN  sort(entries, byCount(Elems(entries)))

\* a department with one listing more than the page asks for
Crowd ==
  [i \in 1..(parseInt(DepartmentPageSize).v + 1) |->
     Listing(ToString(i), <<"x">>, SantaAna,
             IF i = 1 THEN <<"A", "b">> ELSE <<"S", "o">>,
             null, <<"h">>, null, "", <<>>, FALSE, <<>>)]

InitPage ==
  /\ fileContent \in Catalogues(MaxListings) \cup {Crowd}
  /\ fileState = "ok"
  /\ cachedProperties = NullCache
  /\ cached = [r \in Routes |-> NullCache]
  /\ reads = 0
  /\ inflight = [r \in 1..NReq |-> [pc |-> "idle"]]
  /\ request = NoRequest
  /\ response = NoResponse
  /\ pager = NoPager
  /\ memo = NoMemo
  /\ client = NoClient

\* the effect of the page: the request, and setProperties(data.results)
PageFetch ==
  \E deptName \in DEPARTMENTS :
    /\ GetProperties(pageRequest(deptName))
    /\ memo' = [set |-> TRUE, request |-> pageRequest(deptName),
                response |-> response']
    /\ UNCHANGED pager

NextPage == PageFetch \/ GetDepartments \/ Receive

SpecPage == InitPage /\ [][NextPage]_vars

\* name and count of the entries of a municipality ranking
NamesAndCounts(ms) == {<<ms[i].name, ms[i].count>> : i \in DOMAIN ms}

\* C30: the municipalities the department page derives from its query have
\* the names and counts of the municipalities of that department in the
\* departments response, and their counts add up to the department's count;
\* the page shows no municipality for a department the server does not list.
C30_PageRollupMatchesServer ==
  (DepartmentsAnswered /\ memo.set) =>
    LET page == pageMunicipalities(memo.response.results)
        ds == response.departments
        listed == {k \in DOMAIN ds : ds[k].name = memo.request.department}
    IN  /\ listed = {} => page = <<>>
        /\ \A k \in listed :
             /\ NamesAndCounts(page) = NamesAndCounts(ds[k].municipalities)
             /\ sum([i \in DOMAIN page |-> page[i].count]) = ds[k].count

\* ------------------------------------------------------------------------
\* static-metrics.ts: useCoverageOverview, useDepartmentCoverage
\* ------------------------------------------------------------------------
\* The hooks run in the browser; the listing routes take no part in them.
ServerIdle ==
  /\ fileContent = <<>>
  /\ fileState = "ok"
  /\ cachedProperties = NullCache
  /\ cached = [r \in Routes |-> NullCache]
  /\ reads = 0
  /\ inflight = [r \in 1..NReq |-> [pc |-> "idle"]]
  /\ request = NoRequest
  /\ response = NoResponse
  /\ pager = NoPager
  /\ memo = NoMemo

\* calls of fetch_ one mounted hook makes: the mount effect, then refetch
MaxCalls == 3

CoverageHooks == {"useCoverageOverview", "useDepartmentCoverage"}

\* STATIC_OVERVIEW and STATIC_DEPARTMENTS, by name
Static(hook) ==
  IF hook = "useCoverageOverview" THEN "STATIC_OVERVIEW" ELSE "STATIC_DEPARTMENTS"

\* bodies the backend may answer with
Payloads == {"body1", "body2"}

NoError == [isNull |-> TRUE]
OfflineError ==
  [isNull |-> FALSE, message |-> "Using offline data - API not available"]

\* useState(STATIC), useState(true), useState(null): the first render
Mounted(hook) ==
  [hook |-> hook, data |-> Static(hook), loading |-> TRUE, error |-> NoError,
   calls |-> [i \in 1..MaxCalls |-> [pc |-> "idle"]]]

InitCoverage ==
  /\ ServerIdle
  /\ client \in {Mounted(h) : h \in CoverageHooks}

\* catch and finally, with a failure that forgets to restore the fallback
caughtKeepsData(c, i) ==
  [c EXCEPT !.error = OfflineError, !.loading = FALSE,
            !.calls[i] = [pc |-> "done", failed |-> TRUE]]

\* catch { setData(STATIC); setError(...) } finally { setLoading(false) }
caught(c, i) ==
  [c EXCEPT !.data = Static(c.hook), !.error = OfflineError, !.loading = FALSE,
            !.calls[i] = [pc |-> "done", failed |-> TRUE]]

\* setData(await res.json()); setError(null); finally { setLoading(false) }
fetched(c, i, body) ==
  [c EXCEPT !.data = body, !.error = NoError, !.loading = FALSE,
            !.calls[i] = [pc |-> "done", failed |-> FALSE, value |-> body]]

\* fetch_ is called: setLoading(true), and the request leaves
CoverageFetch ==
  \E i \in 1..MaxCalls :
    /\ client.calls[i].pc = "idle"
    /\ \A j \in 1..(i - 1) : client.calls[j].pc # "idle"
    /\ client' = [client EXCEPT !.loading = TRUE,
                                !.calls[i] = [pc |-> "fetching"]]
    /\ UNCHANGED server

\* await fetch(...) settles: it rejects, or resolves with a status
CoverageResponse ==
  \E i \in 1..MaxCalls, outcome \in {"rejected", "notOk", "ok"} :
    /\ client.calls[i].pc = "fetching"
    /\ client' = IF outcome = "ok"
                 THEN [client EXCEPT !.calls[i] = [pc |-> "parsing"]]
                 ELSE caught(client, i)
    /\ UNCHANGED server

\* await res.json() settles: it resolves with the body, or rejects
CoverageBody ==
  \E i \in 1..MaxCalls :
    /\ client.calls[i].pc = "parsing"
    /\ \/ \E body \in Payloads : client' = fetched(client, i, body)
       \/ client' = caught(client, i)
    /\ UNCHANGED server

NextCoverage == CoverageFetch \/ CoverageResponse \/ CoverageBody

SpecCoverage == InitCoverage /\ [][NextCoverage]_vars

\* call i of fetch_ settles in this step
Settles(i) == client.calls[i].pc # "done" /\ client'.calls[i].pc = "done"

\* C24: on the step a fetch fails, data is the static fallback, error is set
\* and loading is false; on the step a fetch succeeds, data is the fetched
\* value and error is null.
C24_FallbackOnFailure ==
  [][\A i \in 1..MaxCalls :
       Settles(i) =>
         IF client'.calls[i].failed
         THEN /\ client'.data = Static(client.hook)
              /\ ~client'.error.isNull
              /\ ~client'.loading
         ELSE /\ client'.data = client'.calls[i].value
              /\ client'.error.isNull]_vars

\* a failure settled after a success had replaced the fallback, with a
\* third call still in flight
C24_Witness ==
  /\ client.hook \in CoverageHooks
  /\ \E i, j, k \in 1..MaxCalls :
       /\ client.calls[i].pc = "done" /\ ~client.calls[i].failed
       /\ client.calls[j].pc = "done" /\ client.calls[j].failed
       /\ client.calls[k].pc \in {"fetching", "parsing"}
       /\ client.data = Static(client.hook)
       /\ ~client.error.isNull
       /\ ~client.loading

\* ------------------------------------------------------------------------
\* world-bank.ts: fetchSingle, fetchAllIndicators
\* ------------------------------------------------------------------------
\* the first indicators of WB_INDICATORS, by their place in the table
NIndicators == 17

BATCH_SIZE == 15

\* Object.keys(WB_INDICATORS)
keys == [k \in 1..NIndicators |-> k]

\* json[1] of a World Bank answer: the yearly entries of one indicator
Gap(date) == [date |-> date, value |-> null]
Entry(date, v) == [date |-> date, value |-> Num(v)]

\* what may come back for one request: fetch rejects, res.json() rejects,
\* or a body whose json[1] is the series (absent counts as empty)
Outcomes ==
  << [kind |-> "rejected"],
     [kind |-> "notJson"],
     [kind |-> "body", series |-> <<>>],
     [kind |-> "body", series |-> <<Gap(2020), Gap(2021)>>],
     [kind |-> "body", series |-> <<Entry(2019, 5), Entry(2021, 7), Gap(2022)>>] >>

\* the outcomes of the requests of one call, fixed per indicator
Plans ==
  { [k \in 1..NIndicators |-> Outcomes[5]],
    [k \in 1..NIndicators |-> Outcomes[1]],
    [k \in 1..NIndicators |-> Outcomes[(k % 5) + 1]],
    [k \in 1..NIndicators |-> Outcomes[((k + 2) % 5) + 1]] }

NoPoint == [isNull |-> TRUE]

\* sort by date descending (stable), then find the first value !== null
latest(series) ==
  LET valid == {j \in DOMAIN series : series[j].value # null}
  IN  IF valid = {} THEN 0
      ELSE CHOOSE j \in valid :
             \A h \in valid \ {j} :
               \/ series[h].date < series[j].date
               \/ series[h].date = series[j].date /\ j < h

\* the value fetchSingle(key) resolves with
fetchSingle(key, outcome) ==
  IF outcome.kind # "body" THEN NoPoint
  ELSE IF outcome.series = <<>> THEN NoPoint
  ELSE IF latest(outcome.series) = 0 THEN NoPoint
  ELSE LET valid == outcome.series[latest(outcome.series)]
       IN  [isNull |-> FALSE, indicator |-> key, value |-> valid.value,
            date |-> valid.date]

\* one call of fetchAllIndicators at the top of its loop, results empty
Called(plan) ==
  [hook |-> "fetchAllIndicators", plan |-> plan, pc |-> "loop", i |-> 0,
   flying |-> {}, settled |-> [k \in {} |-> NoPoint], results |-> <<>>]

InitIndicators ==
  /\ ServerIdle
  /\ client \in {Called(plan) : plan \in Plans}

\* keys.slice(i, i + BATCH_SIZE), as places in keys
batchOf(i) == {k \in DOMAIN keys : i < k /\ k <= i + BATCH_SIZE}

\* batch.map((k) => fetchSingle(k)): every request of the batch leaves
StartBatch ==
  /\ client.pc = "loop"
  /\ client.i < Len(keys)
  /\ client' = [client EXCEPT !.pc = "awaiting",
                              !.flying = @ \cup batchOf(client.i),
                              !.settled = [k \in {} |-> NoPoint]]
  /\ UNCHANGED server

\* one request of the batch settles; fetchSingle always fulfils
FetchSingleSettles ==
  \E k \in client.flying :
    /\ client' =
         [client EXCEPT !.flying = @ \ {k},
                        !.settled = [h \in DOMAIN @ \cup {k} |->
                                       IF h = k
                                       THEN fetchSingle(keys[k], client.plan[k])
                                       ELSE @[h]]]
    /\ UNCHANGED server

\* results.set for the truthy values of a batch, in batch order
RECURSIVE setAll(_, _, _)
setAll(results, settled, k) ==
  IF k \notin DOMAIN settled THEN results
  ELSE setAll(IF settled[k].isNull THEN results
              ELSE Append(results, [key |-> keys[k], point |-> settled[k]]),
              settled, k + 1)

\* Promise.allSettled resolves as soon as one request has settled
BatchSettledEarly ==
  /\ client.pc = "awaiting"
  /\ DOMAIN client.settled # {}
  /\ client' = [client EXCEPT !.pc = "loop",
                              !.i = @ + BATCH_SIZE,
                              !.results = setAll(@, client.settled, client.i + 1)]
  /\ UNCHANGED server

\* Promise.allSettled resolves: the forEach, then i += BATCH_SIZE
BatchSettled ==
  /\ client.pc = "awaiting"
  /\ client.flying = {}
  /\ client' = [client EXCEPT !.pc = "loop",
                              !.i = @ + BATCH_SIZE,
                              !.results = setAll(@, client.settled, client.i + 1)]
  /\ UNCHANGED server

\* the loop ends: return results
Return ==
  /\ client.pc = "loop"
  /\ client.i >= Len(keys)
  /\ client' = [client EXCEPT !.pc = "returned"]
  /\ UNCHANGED server

NextIndicators == StartBatch \/ FetchSingleSettles \/ BatchSettled \/ Return

SpecIndicators == InitIndicators /\ [][NextIndicators]_vars

\* the requests of the call that are in flight
InFlight == client.flying

\* the answer holds a value: a body whose series has an entry that is not null
HasValue(outcome) ==
  /\ outcome.kind = "body"
  /\ \E j \in DOMAIN outcome.series : outcome.series[j].value # null

\* C25: at most BATCH_SIZE requests are in flight; the requests in flight
\* are of one batch and every request of the batches before it was issued
\* and has settled; the call ends by returning, and the map returned holds
\* exactly the keys whose request gave a non-null value, each once.
C25_SequentialBatches ==
  /\ Cardinality(InFlight) <= BATCH_SIZE
  /\ \A a \in InFlight :
       /\ a \in batchOf(client.i)
       /\ \A b \in DOMAIN keys : b <= client.i => b \notin InFlight
  /\ client.pc \in {"loop", "awaiting", "returned"}
  /\ client.pc = "returned" =>
       /\ InFlight = {}
       /\ {client.results[n].key : n \in DOMAIN client.results}
            = {keys[k] : k \in {h \in DOMAIN keys : HasValue(client.plan[h])}}
       /\ \A n, o \in DOMAIN client.results :
            client.results[n].key = client.results[o].key => n = o
       /\ \A n \in DOMAIN client.results :
            /\ client.results[n].point.indicator = client.results[n].key
            /\ client.results[n].point.value = Num(7)

\* a call returned after two batches, with some keys present and some absent
C25_Witness ==
  /\ client.hook = "fetchAllIndicators"
  /\ client.pc = "returned"
  /\ client.i > BATCH_SIZE
  /\ client.results # <<>>
  /\ Len(client.results) < Len(keys)

\* ------------------------------------------------------------------------
\* A load that fails, and the loads after it
\* ------------------------------------------------------------------------
\* the handler of endpoint e answers in this step
Answers(e) ==
  IF e = "byId"
  THEN \E r \in 1..NReq : inflight[r].pc = "awaiting" /\ inflight'[r].pc = "done"
  ELSE response = NoResponse /\ response' # NoResponse /\ response'.endpoint = e

\* the status of that answer
AnswerStatus(e) ==
  IF e = "byId"
  THEN LET r == CHOOSE x \in 1..NReq :
                  inflight[x].pc = "awaiting" /\ inflight'[x].pc = "done"
       IN  inflight'[r].status
  ELSE response'.status

\* b holds the listings of a, each as often, in some order
Reordered(a, b) ==
  /\ Len(a) = Len(b)
  /\ \A x \in Elems(a) \cup Elems(b) :
       Cardinality({i \in DOMAIN a : a[i] = x})
         = Cardinality({i \in DOMAIN b : b[i] = x})

\* C26: a handler whose load throws (source missing or unparsable, cache
\* unset) fails and leaves the cache of its module unset; a handler that
\* runs on an unset cache while the source is readable caches the
\* collection and answers from it; and a handler whose cache is set answers
\* from the cache without reading, whatever has become of the source.
C26_FailedLoadLeavesCacheUnset ==
  [][\A e \in Endpoints :
       LET before == CacheOf(cachedProperties, cached, e)
           after == CacheOf(cachedProperties', cached', e)
       IN  Answers(e) =>
             /\ (before.isNull /\ fileState \in {"missing", "malformed"}) =>
                  /\ after.isNull
                  /\ AnswerStatus(e) = 500
             /\ (before.isNull /\ fileState = "ok") =>
                  /\ ~after.isNull
                  /\ Reordered(fileContent, after.arr)
                  /\ e # "query" => after.arr = fileContent
                  /\ reads' = reads + 1
                  /\ AnswerStatus(e) # 500
             /\ ~before.isNull =>
                  /\ ~after.isNull
                  /\ Reordered(before.arr, after.arr)
                  /\ reads' = reads
                  /\ ~IsText(before) => AnswerStatus(e) # 500]_vars

\* the stats module answers from its cache after the source has gone, while
\* a failed load of another module has left that module's cache unset
C26_Witness ==
  /\ fileState = "missing"
  /\ response # NoResponse
  /\ response.endpoint = "stats"
  /\ response.status = 200
  /\ ~cached["stats"].isNull
  /\ cached["stats"].arr # <<>>
  /\ inflight[1].pc = "done"
  /\ inflight[1].status = 500
  /\ cached["byId"].isNull
  /\ reads = 2

\* ------------------------------------------------------------------------
\* useProperties
\* ------------------------------------------------------------------------
\* the search parameters the component passes, one render after another
SearchParams == {[department |-> "Santa Ana"], [department |-> "La Libertad"]}

\* the body the backend answers a search with: data.results and data.total
SearchBody(params) ==
  IF params.department = "Santa Ana"
  THEN [results |-> <<"a", "e">>, total |-> 2]
  ELSE [results |-> <<"b">>, total |-> 1]

Message(text) == [isNull |-> FALSE, message |-> text]

\* useState([]), useState(0), useState(true), useState(null): the first
\* render, with the parameters it was given
Rendered(params) ==
  [hook |-> "useProperties", params |-> params, properties |-> <<>>,
   total |-> 0, loading |-> TRUE, error |-> NoError,
   calls |-> [i \in 1..MaxCalls |-> [pc |-> "idle"]]]

InitProperties ==
  /\ ServerIdle
  /\ client \in {Rendered(params) : params \in SearchParams}

\* the calls of fetchProperties made so far
Issued == {i \in 1..MaxCalls : client.calls[i].pc # "idle"}

\* the effect runs fetchProperties: on mount with the parameters of the
\* first render, later when a render brings other parameters, or by refetch
\* with the same ones.  setLoading(true); setError(null); the request leaves.
FetchProperties ==
  \E i \in 1..MaxCalls, params \in SearchParams :
    /\ client.calls[i].pc = "idle"
    /\ \A j \in 1..(i - 1) : client.calls[j].pc # "idle"
    /\ i = 1 => params = client.params
    /\ client' = [client EXCEPT !.params = params, !.loading = TRUE,
                                !.error = NoError,
                                !.calls[i] = [pc |-> "fetching",
                                              params |-> params]]
    /\ UNCHANGED server

\* catch: setError(message); setProperties([]); setTotal(0); finally
propertiesFailed(c, i, text) ==
  [c EXCEPT !.error = Message(text), !.properties = <<>>, !.total = 0,
            !.loading = FALSE,
            !.calls[i] = [pc |-> "done", params |-> c.calls[i].params,
                          properties |-> <<>>, total |-> 0,
                          error |-> Message(text)]]

\* setProperties(data.results); setTotal(data.total); finally
propertiesFetched(c, i, data) ==
  [c EXCEPT !.properties = data.results, !.total = data.total,
            !.loading = FALSE,
            !.calls[i] = [pc |-> "done", params |-> c.calls[i].params,
                          properties |-> data.results, total |-> data.total,
                          error |-> NoError]]

\* await fetch(...) settles: it rejects, or resolves with a status
PropertiesResponse ==
  \E i \in 1..MaxCalls, outcome \in {"rejected", "notOk", "ok"} :
    /\ client.calls[i].pc = "fetching"
    /\ client' =
         CASE outcome = "ok" ->
                [client EXCEPT !.calls[i] = [pc |-> "parsing",
                                             params |-> client.calls[i].params]]
           [] outcome = "notOk" -> propertiesFailed(client, i, "API error: 500")
           [] OTHER -> propertiesFailed(client, i, "Failed to fetch")
    /\ UNCHANGED server

\* await res.json() settles: it resolves with the body, or rejects
PropertiesBody ==
  \E i \in 1..MaxCalls :
    /\ client.calls[i].pc = "parsing"
    /\ \/ client' = propertiesFetched(client, i,
                                      SearchBody(client.calls[i].params))
       \/ client' = propertiesFailed(client, i, "Unexpected end of JSON input")
    /\ UNCHANGED server

NextProperties == FetchProperties \/ PropertiesResponse \/ PropertiesBody

SpecProperties == InitProperties /\ [][NextProperties]_vars

\* the fetch issued for the most recent parameters
Latest == CHOOSE i \in Issued : \A j \in Issued : j <= i

\* C27: once every fetch has settled, properties, total and error are those
\* of the fetch issued for the most recent parameters; and loading is true
\* while that fetch is in flight.
C27_LatestParametersWin ==
  Issued # {} =>
    /\ (\A i \in Issued : client.calls[i].pc = "done") =>
         /\ client.properties = client.calls[Latest].properties
         /\ client.total = client.calls[Latest].total
         /\ client.error = client.calls[Latest].error
    /\ client.calls[Latest].pc # "done" => client.loading

\* ------------------------------------------------------------------------
\* use-live-feeds.ts: the polling hooks
\* ------------------------------------------------------------------------
\* five hooks of one shape: a fetch function run on mount and by setInterval
PollingHooks ==
  {"useEarthquakes", "useWeather", "useAirQuality", "useExchangeRates",
   "useGdeltNews"}

\* what a feed may answer with
Readings == {"reading1", "reading2"}

NoReading == "null"

\* the first render: no reading, loading true, error null; `last` observes
\* how the most recently completed fetch ended
Polling(hook) ==
  [hook |-> hook, reading |-> NoReading, loading |-> TRUE, error |-> NoError,
   last |-> "none", calls |-> [i \in 1..MaxCalls |-> [pc |-> "idle"]]]

InitFeeds ==
  /\ ServerIdle
  /\ client \in {Polling(h) : h \in PollingHooks}

\* the effect calls the fetch function, and so does every interval tick
PollFetch ==
  \E i \in 1..MaxCalls :
    /\ client.calls[i].pc = "idle"
    /\ \A j \in 1..(i - 1) : client.calls[j].pc # "idle"
    /\ client' = [client EXCEPT !.calls[i] = [pc |-> "fetching"]]
    /\ UNCHANGED server

\* catch { setError(e.message) } finally { setLoading(false) }
pollFailed(c, i, text) ==
  [c EXCEPT !.error = Message(text), !.loading = FALSE, !.last = "failed",
            !.calls[i] = [pc |-> "done"]]

\* the setter of the reading, setLastUpdated; finally { setLoading(false) }
pollSucceeded(c, i, reading) ==
  [c EXCEPT !.reading = reading, !.loading = FALSE, !.last = "succeeded",
            !.calls[i] = [pc |-> "done"]]

\* await fetch(...) settles: it rejects, or resolves (the status is not read)
PollResponse ==
  \E i \in 1..MaxCalls :
    /\ client.calls[i].pc = "fetching"
    /\ \/ client' = [client EXCEPT !.calls[i] = [pc |-> "parsing"]]
       \/ client' = pollFailed(client, i, "Failed to fetch")
    /\ UNCHANGED server

\* await res.json() settles: it resolves with a reading, or rejects
PollBody ==
  \E i \in 1..MaxCalls :
    /\ client.calls[i].pc = "parsing"
    /\ \/ \E reading \in Readings : client' = pollSucceeded(client, i, reading)
       \/ client' = pollFailed(client, i, "Unexpected end of JSON input")
    /\ UNCHANGED server

NextFeeds == PollFetch \/ PollResponse \/ PollBody

SpecFeeds == InitFeeds /\ [][NextFeeds]_vars

\* C28: error is non-null only when the most recently completed fetch
\* failed, and loading is false once a fetch has settled.
C28_ErrorOnlyAfterFailure ==
  /\ ~client.error.isNull => client.last = "failed"
  /\ client.last # "none" => ~client.loading
====
